---- MODULE Spec2Model ----
(***************************************************************************)
(* Revenue Analytics Dashboard (src/dashboard.py).                         *)
(*                                                                         *)
(* The script is one top-to-bottom run: build a frame from the embedded    *)
(* list of conversion records, derive the computed columns (process_data), *)
(* compute the summary statistics, emit the KPI cards, then compute each   *)
(* aggregate and hand it to its chart.  The model keeps the script's       *)
(* module-level names as variables; `pc` is the position in the script and *)
(* `page` is the list of KPI cards and charts emitted so far.              *)
(*                                                                         *)
(* Strings are sequences of one-character strings so that split, lower,    *)
(* substring search and the lexicographic order of group keys are computed *)
(* rather than assumed.  Revenue is in integer cents.  The columns         *)
(* license_date and cpl are never read by the script and are left out.     *)
(***************************************************************************)
EXTENDS Integers, Sequences, FiniteSets, TLC

----------------------------------------------------------------------------
(* Characters, in code point order, and the upper/lower case tables.       *)
Chars ==
    <<" ","&","(",")","-",".","/","0","1","2","3","4","5","6","7","8","9","A","B","C","D","E","F","G","H","I","J","K","L","M","N","O","P","Q","R","S","T","U","V","W","X","Y","Z","a","b","c","d","e","f","g","h","i","j","k","l","m","n","o","p","q","r","s","t","u","v","w","x","y","z">>
UpperChars ==
    <<"A","B","C","D","E","F","G","H","I","J","K","L","M","N","O","P","Q","R","S","T","U","V","W","X","Y","Z">>
LowerChars ==
    <<"a","b","c","d","e","f","g","h","i","j","k","l","m","n","o","p","q","r","s","t","u","v","w","x","y","z">>

(* String literals of the script and of the embedded records.              *)
s_Jan_2025 == <<"J","a","n"," ","2","0","2","5">>
s_Feb_2025 == <<"F","e","b"," ","2","0","2","5">>
s_Mar_2025 == <<"M","a","r"," ","2","0","2","5">>
s_Apr_2025 == <<"A","p","r"," ","2","0","2","5">>
s_May_2025 == <<"M","a","y"," ","2","0","2","5">>
s_Q2_2025 == <<"Q","2"," ","2","0","2","5">>
s_Purchased == <<"P","u","r","c","h","a","s","e","d">>
s_Zero_Cost == <<"Z","e","r","o"," ","C","o","s","t">>
s_Zero_cost == <<"Z","e","r","o"," ","c","o","s","t">>
s_Enterprise == <<"E","n","t","e","r","p","r","i","s","e">>
s_Professional == <<"P","r","o","f","e","s","s","i","o","n","a","l">>
s_Professional_Monthly == <<"P","r","o","f","e","s","s","i","o","n","a","l"," ","(","M","o","n","t","h","l","y"," ","p","a","y","m","e","n","t",")">>
s_PMP_Cloud == <<"P","M","P"," ","C","l","o","u","d">>
s_Patch_Manager_Plus == <<"P","a","t","c","h"," ","M","a","n","a","g","e","r"," ","P","l","u","s">>
s_Mobile_Device_Manager == <<"M","o","b","i","l","e"," ","D","e","v","i","c","e"," ","M","a","n","a","g","e","r">>
s_Endpoint_Central == <<"E","n","d","p","o","i","n","t"," ","C","e","n","t","r","a","l">>
s_MDM_OnDemand == <<"M","D","M"," ","O","n","D","e","m","a","n","d">>
s_OS_Deployer == <<"O","S"," ","D","e","p","l","o","y","e","r">>
s_redingtongroup == <<"r","e","d","i","n","g","t","o","n","g","r","o","u","p",".","c","o","m">>
s_co_ellis == <<"c","o",".","e","l","l","i","s",".","t","x",".","u","s">>
s_bensonsforbed == <<"b","e","n","s","o","n","s","f","o","r","b","e","d",".","c","o",".","u","k">>
s_thecityofriles == <<"t","h","e","c","i","t","y","o","f","r","i","l","e","s",".","c","o","m">>
s_wasa_technologies == <<"w","a","s","a","-","t","e","c","h","n","o","l","o","g","i","e","s",".","c","o","m">>
s_landform == <<"l","a","n","d","f","o","r","m",".","c","a">>
s_bonollo == <<"b","o","n","o","l","l","o",".","i","t">>
s_UAE == <<"U","n","i","t","e","d"," ","A","r","a","b"," ","E","m","i","r","a","t","e","s">>
s_US == <<"U","S">>
s_UK == <<"U","K">>
s_Germany == <<"G","e","r","m","a","n","y">>
s_Canada == <<"C","a","n","a","d","a">>
s_Italy == <<"I","t","a","l","y">>
s_IT == <<"I","T">>
s_Retail == <<"R","e","t","a","i","l">>
s_Federal == <<"F","e","d","e","r","a","l">>
s_Concrete == <<"C","o","n","c","r","e","t","e"," ","P","r","o","d","u","c","t","i","o","n"," ","T","e","c","h","n","o","l","o","g","y">>
s_Landscape == <<"L","a","n","d","s","c","a","p","e"," ","C","o","n","s","t","r","u","c","t","i","o","n">>
s_Spirits == <<"S","p","i","r","i","t","s"," ","&"," ","D","i","s","t","i","l","l","a","t","i","o","n">>
s_cloud == <<"c","l","o","u","d">>
s_Cloud == <<"C","l","o","u","d">>
s_On_Premises == <<"O","n","-","P","r","e","m","i","s","e","s">>
s_space == <<" ">>
s_baystateinterpreters == <<"b","a","y","s","t","a","t","e","i","n","t","e","r","p","r","e","t","e","r","s",".","c","o","m">>
s_bobbrowauto == <<"b","o","b","b","r","o","w","a","u","t","o",".","c","o","m">>
s_acmcle == <<"a","c","m","c","l","e",".","c","o","m",".","h","k">>
s_agrikemilau == <<"a","g","r","i","k","e","m","i","l","a","u",".","c","o","m">>
s_sau53 == <<"s","a","u","5","3",".","o","r","g">>
s_Translation == <<"T","r","a","n","s","l","a","t","i","o","n"," ","s","e","r","v","i","c","e","s">>
s_Automotive == <<"A","u","t","o","m","o","t","i","v","e">>
s_Educational == <<"E","d","u","c","a","t","i","o","n","a","l">>
s_Agriculture == <<"A","g","r","i","c","u","l","t","u","r","e">>
s_Education == <<"E","d","u","c","a","t","i","o","n">>
s_Hong_Kong == <<"H","o","n","g"," ","K","o","n","g">>
s_Indonesia == <<"I","n","d","o","n","e","s","i","a">>
s_Paid == <<"P","a","i","d">>
s_Other == <<"O","t","h","e","r">>


----------------------------------------------------------------------------
(* Bounds.                                                                 *)
MaxRows == 3

MaxIndustryRows == 8

----------------------------------------------------------------------------
(* String primitives.                                                      *)
CharCode(c) == CHOOSE i \in 1..Len(Chars) : Chars[i] = c

CharLower(c) ==
    IF \E i \in 1..Len(UpperChars) : UpperChars[i] = c
    THEN LowerChars[CHOOSE i \in 1..Len(UpperChars) : UpperChars[i] = c]
    ELSE c

\* str.lower()
StrLower(s) == [i \in 1..Len(s) |-> CharLower(s[i])]

\* Python's `sub in s`
StrContains(s, sub) ==
    \E i \in 0..(Len(s) - Len(sub)) : SubSeq(s, i + 1, i + Len(sub)) = sub

\* Python's string order: first differing code point, a proper prefix first
StrLess(a, b) ==
    \E k \in 1..(Len(a) + 1) :
        /\ k <= Len(b)
        /\ \A i \in 1..(k - 1) : a[i] = b[i]
        /\ \/ k = Len(a) + 1
           \/ CharCode(a[k]) < CharCode(b[k])

\* .str.split(' ').str[0]: the text before the first space, the whole
\* string when it has no space
SplitFirst(s) ==
    LET spaces == {i \in 1..Len(s) : <<s[i]>> = s_space}
    IN  IF spaces = {} THEN s
        ELSE SubSeq(s, 1, (CHOOSE i \in spaces : \A j \in spaces : i <= j) - 1)

----------------------------------------------------------------------------
(* The embedded records (a selection of rows of `data`, named by the line  *)
(* of the script they start at) and three variants of them.                *)
Row(u, d, n, r, e, p, c, i, t) ==
    [update_as |-> u, Domain |-> d, endpoints |-> n, revenue |-> r,
     edition |-> e, product |-> p, country |-> c, industry |-> i, type |-> t]

Row75  == Row(s_Jan_2025, s_redingtongroup, 200, 244230, s_Enterprise,
              s_PMP_Cloud, s_UAE, s_IT, s_Zero_Cost)
Row88  == Row(s_Feb_2025, s_co_ellis, 580, 298200, s_Enterprise,
              s_Patch_Manager_Plus, s_US, s_Federal, s_Purchased)
Row127 == Row(s_Feb_2025, s_thecityofriles, 50, 146300, s_Professional,
              s_Mobile_Device_Manager, s_US, s_Federal, s_Purchased)
Row244 == Row(s_Mar_2025, s_bensonsforbed, 60, 10112, s_Professional_Monthly,
              s_PMP_Cloud, s_UK, s_Retail, s_Purchased)
Row582 == Row(s_May_2025, s_wasa_technologies, 100, 117425, s_Professional,
              s_Endpoint_Central, s_Germany, s_Concrete, s_Zero_cost)
Row595 == Row(s_May_2025, s_landform, 38, 92000, s_Professional,
              s_MDM_OnDemand, s_Canada, s_Landscape, s_Zero_Cost)
Row647 == Row(s_May_2025, s_bonollo, 125, 168768, s_Enterprise,
              s_Endpoint_Central, s_Italy, s_Spirits, s_Zero_Cost)
Row660 == Row(s_May_2025, s_bonollo, 125, 75240, s_Enterprise,
              s_OS_Deployer, s_Italy, s_Spirits, s_Zero_Cost)
\* Row660 bought instead: the same domain under the other lead type
Row660Purchased == [Row660 EXCEPT !.type = s_Purchased]
\* Row595 with a period label that is not a month
Row595Quarter == [Row595 EXCEPT !.update_as = s_Q2_2025]

Rows == {Row75, Row88, Row127, Row244, Row582, Row595, Row647, Row660,
         Row660Purchased, Row595Quarter}

\* Rows of nine records over eight industries, for the industry pie
Row114 == Row(s_Feb_2025, s_baystateinterpreters, 110, 84000, s_Enterprise,
              s_Patch_Manager_Plus, s_US, s_Translation, s_Purchased)
Row153 == Row(s_Feb_2025, s_bobbrowauto, 250, 149500, s_Enterprise,
              s_OS_Deployer, s_US, s_Automotive, s_Purchased)
Row309 == Row(s_Mar_2025, s_acmcle, 100, 25594, s_Professional,
              s_Patch_Manager_Plus, s_Hong_Kong, s_Educational, s_Zero_Cost)
Row361 == Row(s_Apr_2025, s_agrikemilau, 50, 83850, s_Enterprise,
              s_Endpoint_Central, s_Indonesia, s_Agriculture, s_Zero_Cost)
Row478 == Row(s_Apr_2025, s_sau53, 55, 381900, s_Enterprise,
              s_Patch_Manager_Plus, s_US, s_Education, s_Purchased)

IndustryRows ==
    <<Row75, Row88, Row114, Row127, Row153, Row244, Row309, Row361, Row478>>

\* The datasets of the industry runs: the rows at any 1..MaxIndustryRows
\* places of IndustryRows, in that order or in the reverse order
IndustryDatasets ==
    UNION {
        {[r \in 1..Cardinality(I) |->
            IndustryRows[CHOOSE i \in I : Cardinality({j \in I : j < i}) = r - 1]],
         [r \in 1..Cardinality(I) |->
            IndustryRows[CHOOSE i \in I : Cardinality({j \in I : j > i}) = r - 1]]} :
        I \in {J \in SUBSET (1..Len(IndustryRows)) :
                  J # {} /\ Cardinality(J) <= MaxIndustryRows}}

\* The datasets a run is started on: every list of 1..MaxRows of the rows
Datasets == UNION {[1..n -> Rows] : n \in 1..MaxRows}

----------------------------------------------------------------------------
(* process_data: the derive step.                                          *)
\* df['update_as'].str.split(' ').str[0]
Month_WholeLabel(update_as) == update_as

Month(update_as) == SplitFirst(update_as)

\* 'Cloud' if 'cloud' in product.lower() else 'On-Premises'
Deployment_CaseSensitive(product) ==
    IF StrContains(product, s_cloud) THEN s_Cloud ELSE s_On_Premises

Deployment(product) ==
    IF StrContains(StrLower(product), s_cloud) THEN s_Cloud ELSE s_On_Premises

\* df['edition'].str.split(' ').str[0]
EditionSimple_WholeEdition(edition) == edition

EditionSimple(edition) == SplitFirst(edition)

ProcessRow(r) ==
    [update_as |-> r.update_as, Domain |-> r.Domain,
     endpoints |-> r.endpoints, revenue |-> r.revenue,
     edition |-> r.edition, product |-> r.product, country |-> r.country,
     industry |-> r.industry, type |-> r.type,
     month |-> Month(r.update_as),
     deployment |-> Deployment(r.product),
     edition_simple |-> EditionSimple(r.edition)]

process_data(frame) == [i \in 1..Len(frame) |-> ProcessRow(frame[i])]

----------------------------------------------------------------------------
(* Frame primitives.                                                       *)
RECURSIVE SumOver(_, _)
SumOver(f, S) ==
    IF S = {} THEN 0
    ELSE LET x == CHOOSE y \in S : TRUE
         IN  f[x] + SumOver(f, S \ {x})

\* frame[col].sum()
ColumnSum(frame, col) ==
    SumOver([i \in 1..Len(frame) |-> frame[i][col]], 1..Len(frame))

\* the rows of a frame at the positions I, in frame order
Pick(frame, I) ==
    [r \in 1..Cardinality(I) |->
        frame[CHOOSE i \in I : Cardinality({j \in I : j < i}) = r - 1]]

\* frame[frame[col] == v]
Where(frame, col, v) == Pick(frame, {i \in 1..Len(frame) : frame[i][col] = v})

\* the group keys of groupby(col), which pandas sorts
GroupKeys(frame, col) ==
    LET S == {frame[i][col] : i \in 1..Len(frame)}
    IN  [r \in 1..Cardinality(S) |->
            CHOOSE k \in S : Cardinality({x \in S : StrLess(x, k)}) = r - 1]

\* groupby(col)['revenue'].sum() for one key
GroupRevenue_FirstRecord(frame, col, k) == Where(frame, col, k)[1].revenue

GroupRevenue(frame, col, k) == ColumnSum(Where(frame, col, k), "revenue")

\* sort_values(ascending=True) on integer keys: the positions in sorted
\* order, equal keys in their original order
AscOrder(keys) ==
    [r \in 1..Len(keys) |->
        CHOOSE i \in 1..Len(keys) :
            Cardinality({j \in 1..Len(keys) :
                \/ keys[j] < keys[i]
                \/ keys[j] = keys[i] /\ j < i}) = r - 1]

\* sort_values(ascending=False)
DescOrder(keys) ==
    [r \in 1..Len(keys) |->
        CHOOSE i \in 1..Len(keys) :
            Cardinality({j \in 1..Len(keys) :
                \/ keys[j] > keys[i]
                \/ keys[j] = keys[i] /\ j < i}) = r - 1]

Permute(frame, order) == [r \in 1..Len(frame) |-> frame[order[r]]]

\* (n / d).round(0) on exact values, ties to the even neighbour
RoundHalfEven(n, d) ==
    LET q == n \div d
        r == n % d
    IN  IF 2 * r < d THEN q
        ELSE IF 2 * r > d THEN q + 1
        ELSE IF q % 2 = 0 THEN q ELSE q + 1

\* (revenue / total_revenue * 100).round(1), in tenths of a percent; a
\* missing value is the empty sequence
Percentage(revenue, total) ==
    IF total = 0 THEN <<>> ELSE <<RoundHalfEven(revenue * 1000, total)>>

----------------------------------------------------------------------------
(* Summary statistics.                                                     *)
\* processed_df[['Domain', 'type']].drop_duplicates(): first occurrences
unique_domains_NoDropDuplicates(frame) ==
    [i \in 1..Len(frame) |->
        [Domain |-> frame[i].Domain, type |-> frame[i].type]]

unique_domains(frame) ==
    LET pairs == [i \in 1..Len(frame) |->
                    [Domain |-> frame[i].Domain, type |-> frame[i].type]]
    IN  Pick(pairs, {i \in 1..Len(pairs) :
                        \A j \in 1..(i - 1) : pairs[j] # pairs[i]})

\* unique_domains[unique_domains['type'] == t].shape[0]
LeadCount(uniq, t) == Len(Where(uniq, "type", t))

paid_leads(uniq) == LeadCount(uniq, s_Purchased)

zero_cost_leads(uniq) == LeadCount(uniq, s_Zero_Cost)

revenue_by_lead_type(frame) ==
    LET keys == GroupKeys(frame, "type")
    IN  [r \in 1..Len(keys) |->
            [type |-> keys[r],
             revenue |-> GroupRevenue(frame, "type", keys[r])]]

\* ['revenue'].values[0] on an empty selection
RaisesIndexError(by_type, t, leads) ==
    leads > 0 /\ Where(by_type, "type", t) = <<>>

\* revenue_by_lead_type[...]['revenue'].values[0] / leads if leads > 0 else 0
\* kept as an exact fraction
AvgRevenue_MoreThanOne(by_type, t, leads) ==
    IF leads > 1
    THEN [num |-> Where(by_type, "type", t)[1].revenue, den |-> leads]
    ELSE [num |-> 0, den |-> 1]

AvgRevenue(by_type, t, leads) ==
    IF leads > 0
    THEN [num |-> Where(by_type, "type", t)[1].revenue, den |-> leads]
    ELSE [num |-> 0, den |-> 1]

----------------------------------------------------------------------------
(* Monthly aggregates.                                                     *)
s_Jan == <<"J","a","n">>
s_Feb == <<"F","e","b">>
s_Mar == <<"M","a","r">>
s_Apr == <<"A","p","r">>
s_May == <<"M","a","y">>
s_Jun == <<"J","u","n">>
s_Jul == <<"J","u","l">>
s_Aug == <<"A","u","g">>
s_Sep == <<"S","e","p">>
s_Oct == <<"O","c","t">>
s_Nov == <<"N","o","v">>
s_Dec == <<"D","e","c">>

MonthNames ==
    <<s_Jan, s_Feb, s_Mar, s_Apr, s_May, s_Jun,
      s_Jul, s_Aug, s_Sep, s_Oct, s_Nov, s_Dec>>

month_order ==
    [m \in {MonthNames[i] : i \in 1..Len(MonthNames)} |->
        CHOOSE i \in 1..Len(MonthNames) : MonthNames[i] = m]

\* .map(month_order): the month number, missing for any other key
MonthNum(m) == IF m \in DOMAIN month_order THEN <<month_order[m]>> ELSE <<>>

\* sort_values('month_num'): ascending, missing values last
SortByMonthNum(frame) ==
    Permute(frame,
            AscOrder([i \in 1..Len(frame) |->
                        IF frame[i].month_num = <<>>
                        THEN Len(MonthNames) + 1
                        ELSE frame[i].month_num[1]]))

monthly_revenue_Unsorted(frame) ==
    LET keys == GroupKeys(frame, "month")
    IN  [r \in 1..Len(keys) |->
            [month |-> keys[r],
             revenue |-> GroupRevenue(frame, "month", keys[r]),
             month_num |-> MonthNum(keys[r])]]

monthly_revenue(frame) ==
    LET keys == GroupKeys(frame, "month")
    IN  SortByMonthNum(
            [r \in 1..Len(keys) |->
                [month |-> keys[r],
                 revenue |-> GroupRevenue(frame, "month", keys[r]),
                 month_num |-> MonthNum(keys[r])]])

\* groupby(['month', 'type']).size().unstack(fill_value=0).reset_index():
\* one row per month, one count column per lead type present in the frame
monthly_acquisition(frame) ==
    LET keys  == GroupKeys(frame, "month")
        types == {frame[i].type : i \in 1..Len(frame)}
    IN  [r \in 1..Len(keys) |->
            [month |-> keys[r],
             size |-> [t \in types |->
                         Len(Where(Where(frame, "month", keys[r]), "type", t))]]]

\* 'Purchased' in columns and 'Zero Cost' in columns
HasBothLeadColumns_TraceName(acq) ==
    /\ s_Paid \in DOMAIN acq[1].size
    /\ s_Zero_Cost \in DOMAIN acq[1].size

HasBothLeadColumns(acq) ==
    /\ s_Purchased \in DOMAIN acq[1].size
    /\ s_Zero_Cost \in DOMAIN acq[1].size

\* the body of the `if`: add month_num, sort by it
SortedAcquisition_Unsorted(acq) ==
    [r \in 1..Len(acq) |->
        [month |-> acq[r].month, size |-> acq[r].size,
         month_num |-> MonthNum(acq[r].month)]]

SortedAcquisition(acq) ==
    SortByMonthNum(
        [r \in 1..Len(acq) |->
            [month |-> acq[r].month, size |-> acq[r].size,
             month_num |-> MonthNum(acq[r].month)]])

----------------------------------------------------------------------------
(* Revenue breakdowns.                                                     *)
\* groupby(col)['revenue'].sum().reset_index() with the percentage column
RevenueBy(frame, col, total) ==
    LET keys == GroupKeys(frame, col)
    IN  [r \in 1..Len(keys) |->
            (col :> keys[r]) @@
            [revenue |-> GroupRevenue(frame, col, keys[r]),
             percentage |-> Percentage(GroupRevenue(frame, col, keys[r]), total)]]

\* sort_values('revenue', ascending=False)
SortByRevenueDesc(frame) ==
    Permute(frame, DescOrder([i \in 1..Len(frame) |-> frame[i].revenue]))

\* line 950: the percentage column added to revenue_by_lead_type
WithPercentage(by_type, total) ==
    [r \in 1..Len(by_type) |->
        [type |-> by_type[r].type, revenue |-> by_type[r].revenue,
         percentage |-> Percentage(by_type[r].revenue, total)]]

revenue_by_country(frame, total) ==
    SortByRevenueDesc(RevenueBy(frame, "country", total))

revenue_by_edition(frame, total) == RevenueBy(frame, "edition_simple", total)

revenue_by_deployment(frame, total) == RevenueBy(frame, "deployment", total)

\* no percentage column on this one
revenue_by_product(frame) ==
    LET keys == GroupKeys(frame, "product")
    IN  SortByRevenueDesc(
            [r \in 1..Len(keys) |->
                [product |-> keys[r],
                 revenue |-> GroupRevenue(frame, "product", keys[r])]])

revenue_by_industry(frame, total) ==
    SortByRevenueDesc(RevenueBy(frame, "industry", total))

TopIndustries == 6

\* head(6), plus an 'Other' row summing iloc[6:] when that is not empty
top_industries_NoOther(by_industry) ==
    IF Len(by_industry) > TopIndustries
    THEN SubSeq(by_industry, 1, TopIndustries)
    ELSE by_industry

top_industries(by_industry) ==
    IF Len(by_industry) > TopIndustries
    THEN LET rest == TopIndustries + 1 .. Len(by_industry)
         IN  Append(SubSeq(by_industry, 1, TopIndustries),
                    [industry |-> s_Other,
                     revenue |-> SumOver([i \in rest |-> by_industry[i].revenue],
                                         rest),
                     percentage |->
                        <<SumOver([i \in rest |->
                                     IF by_industry[i].percentage = <<>> THEN 0
                                     ELSE by_industry[i].percentage[1]], rest)>>])
    ELSE by_industry

----------------------------------------------------------------------------
(* Endpoint size distribution and domain counts.                           *)
\* (lower, upper) pairs; the last range has no upper end
size_ranges ==
    << <<0, <<100>>>>, <<101, <<200>>>>, <<201, <<300>>>>, <<301, <<400>>>>,
       <<401, <<500>>>>, <<501, <<600>>>>, <<601, <<700>>>>, <<701, <<800>>>>,
       <<801, <<900>>>>, <<901, <<>>>> >>

range_labels ==
    <<"0-100", "101-200", "201-300", "301-400", "401-500",
      "501-600", "601-700", "701-800", "801-900", "901+">>

InRange(n, range) ==
    /\ n >= range[1]
    /\ range[2] = <<>> \/ n <= range[2][1]

RangeCount(frame, i) ==
    Cardinality({r \in 1..Len(frame) : InRange(frame[r].endpoints, size_ranges[i])})

\* the rows appended by the loop (count > 0 only), with range_order, sorted
\* by it; the loop already appends in that order
endpoint_size_df(frame) ==
    LET kept == {i \in 1..Len(size_ranges) : RangeCount(frame, i) > 0}
        rows == [i \in 1..Len(size_ranges) |->
                    [range |-> range_labels[i], count |-> RangeCount(frame, i),
                     range_order |-> i - 1]]
        df0  == Pick(rows, kept)
    IN  Permute(df0, AscOrder([i \in 1..Len(df0) |-> df0[i].range_order]))

TopDomains == 10

\* value_counts(): rows per domain, most frequent first; then the rows with
\* a non-empty domain, and the first 10 of them
domain_count(frame) ==
    LET firsts == {i \in 1..Len(frame) :
                      \A j \in 1..(i - 1) : frame[j].Domain # frame[i].Domain}
        counts == Pick([i \in 1..Len(frame) |->
                          [Domain |-> frame[i].Domain,
                           Count |-> Len(Where(frame, "Domain", frame[i].Domain))]],
                       firsts)
        sorted == Permute(counts, DescOrder([i \in 1..Len(counts) |-> counts[i].Count]))
        named  == Pick(sorted, {i \in 1..Len(sorted) : sorted[i].Domain # <<>>})
    IN  IF Len(named) > TopDomains THEN SubSeq(named, 1, TopDomains) ELSE named

----------------------------------------------------------------------------
(* The run of the script.                                                  *)
(*   data  the embedded list of records the run starts from                *)
(*   pc    the statement the run is at                                     *)
(*   env   the module-level names bound so far, with their values          *)
(*   page  the KPI cards and charts emitted so far, in order               *)
VARIABLES data, pc, env, page

vars == <<data, pc, env, page>>

\* The statements of the script, top to bottom
ProgramOrder_KpiAfterChart ==
    <<"load", "process_data", "summary", "avg_revenue",
      "kpi_total_revenue", "kpi_total_endpoints", "kpi_lead_types",
      "kpi_avg_paid",
      "monthly_revenue", "chart_monthly_revenue", "kpi_avg_zero_cost",
      "monthly_acquisition", "chart_monthly_acquisition",
      "lead_type_percentage", "chart_lead_type",
      "revenue_by_country", "chart_country",
      "revenue_by_edition", "chart_edition",
      "revenue_by_deployment", "chart_deployment",
      "revenue_by_product", "chart_product",
      "revenue_by_industry", "top_industries", "chart_industry",
      "endpoint_size", "chart_endpoint_size",
      "domain_count", "chart_domain_count",
      "footer", "done">>

ProgramOrder ==
    <<"load", "process_data", "summary", "avg_revenue",
      "kpi_total_revenue", "kpi_total_endpoints", "kpi_lead_types",
      "kpi_avg_paid", "kpi_avg_zero_cost",
      "monthly_revenue", "chart_monthly_revenue",
      "monthly_acquisition", "chart_monthly_acquisition",
      "lead_type_percentage", "chart_lead_type",
      "revenue_by_country", "chart_country",
      "revenue_by_edition", "chart_edition",
      "revenue_by_deployment", "chart_deployment",
      "revenue_by_product", "chart_product",
      "revenue_by_industry", "top_industries", "chart_industry",
      "endpoint_size", "chart_endpoint_size",
      "domain_count", "chart_domain_count",
      "footer", "done">>

After(label) ==
    ProgramOrder[(CHOOSE i \in 1..Len(ProgramOrder) : ProgramOrder[i] = label) + 1]

\* an assignment: name = value
Bind(e, name, value) == (name :> value) @@ e

Bound(name) == name \in DOMAIN env

Card(title, value) == [kind |-> "kpi", title |-> title, data |-> value]

Chart(title, frame) == [kind |-> "chart", title |-> title, data |-> frame]

Init ==
    /\ data \in Datasets
    /\ pc = "load"
    /\ env = [n \in {} |-> 0]
    /\ page = <<>>

\* df = pd.DataFrame(data)
Load ==
    /\ pc = "load"
    /\ env' = Bind(env, "df", data)
    /\ pc' = After("load")
    /\ UNCHANGED <<data, page>>

\* processed_df = process_data(df)
ProcessData ==
    /\ pc = "process_data"
    /\ env' = Bind(env, "processed_df", process_data(env.df))
    /\ pc' = After("process_data")
    /\ UNCHANGED <<data, page>>

\* total_revenue .. revenue_by_lead_type
SummaryStatistics ==
    /\ pc = "summary"
    /\ LET frame == env.processed_df
           uniq  == unique_domains(frame)
       IN  env' = [total_revenue |-> ColumnSum(frame, "revenue"),
                   total_endpoints |-> ColumnSum(frame, "endpoints"),
                   unique_domains |-> uniq,
                   paid_leads |-> paid_leads(uniq),
                   zero_cost_leads |-> zero_cost_leads(uniq),
                   revenue_by_lead_type |-> revenue_by_lead_type(frame)] @@ env
    /\ pc' = After("summary")
    /\ UNCHANGED <<data, page>>

\* avg_revenue_per_paid, avg_revenue_per_zero_cost; the run stops on an
\* IndexError
AverageRevenue ==
    /\ pc = "avg_revenue"
    /\ IF \/ RaisesIndexError(env.revenue_by_lead_type, s_Purchased,
                              env.paid_leads)
          \/ RaisesIndexError(env.revenue_by_lead_type, s_Zero_Cost,
                              env.zero_cost_leads)
       THEN pc' = "crashed" /\ env' = env
       ELSE /\ env' = [avg_revenue_per_paid |->
                          AvgRevenue(env.revenue_by_lead_type, s_Purchased,
                                     env.paid_leads),
                       avg_revenue_per_zero_cost |->
                          AvgRevenue(env.revenue_by_lead_type, s_Zero_Cost,
                                     env.zero_cost_leads)] @@ env
            /\ pc' = After("avg_revenue")
    /\ UNCHANGED <<data, page>>

KpiTotalRevenue ==
    /\ pc = "kpi_total_revenue"
    /\ page' = Append(page, Card("Total Revenue", env.total_revenue))
    /\ pc' = After("kpi_total_revenue")
    /\ UNCHANGED <<data, env>>

KpiTotalEndpoints ==
    /\ pc = "kpi_total_endpoints"
    /\ page' = Append(page, Card("Total Endpoints", env.total_endpoints))
    /\ pc' = After("kpi_total_endpoints")
    /\ UNCHANGED <<data, env>>

KpiLeadTypes ==
    /\ pc = "kpi_lead_types"
    /\ page' = Append(page, Card("Lead Types",
                                 [paid |-> env.paid_leads,
                                  zero_cost |-> env.zero_cost_leads]))
    /\ pc' = After("kpi_lead_types")
    /\ UNCHANGED <<data, env>>

KpiAvgPaid ==
    /\ pc = "kpi_avg_paid"
    /\ page' = Append(page, Card("Avg. Revenue Per Paid Lead",
                                 env.avg_revenue_per_paid))
    /\ pc' = After("kpi_avg_paid")
    /\ UNCHANGED <<data, env>>

KpiAvgZeroCost ==
    /\ pc = "kpi_avg_zero_cost"
    /\ page' = Append(page, Card("Avg. Revenue Per Zero Cost Lead",
                                 env.avg_revenue_per_zero_cost))
    /\ pc' = After("kpi_avg_zero_cost")
    /\ UNCHANGED <<data, env>>

\* monthly_revenue, month_order, month_num, sort_values
MonthlyRevenue ==
    /\ pc = "monthly_revenue"
    /\ env' = [monthly_revenue |-> monthly_revenue(env.processed_df),
               month_order |-> month_order] @@ env
    /\ pc' = After("monthly_revenue")
    /\ UNCHANGED <<data, page>>

ChartMonthlyRevenue ==
    /\ pc = "chart_monthly_revenue"
    /\ page' = Append(page, Chart("Monthly Revenue", env.monthly_revenue))
    /\ pc' = After("chart_monthly_revenue")
    /\ UNCHANGED <<data, env>>

MonthlyAcquisition ==
    /\ pc = "monthly_acquisition"
    /\ env' = Bind(env, "monthly_acquisition",
                   monthly_acquisition(env.processed_df))
    /\ pc' = After("monthly_acquisition")
    /\ UNCHANGED <<data, page>>

\* the `if` taken: sort by month number, then the stacked bar
ChartMonthlyAcquisition ==
    /\ pc = "chart_monthly_acquisition"
    /\ HasBothLeadColumns(env.monthly_acquisition)
    /\ LET acq == SortedAcquisition(env.monthly_acquisition)
       IN  /\ env' = Bind(env, "monthly_acquisition", acq)
           /\ page' = Append(page,
                  Chart("Monthly Customer Acquisition",
                        [r \in 1..Len(acq) |->
                            [month |-> acq[r].month,
                             Paid |-> acq[r].size[s_Purchased],
                             ZeroCost |-> acq[r].size[s_Zero_Cost]]]))
    /\ pc' = After("chart_monthly_acquisition")
    /\ UNCHANGED data

\* the `if` not taken
SkipMonthlyAcquisition ==
    /\ pc = "chart_monthly_acquisition"
    /\ ~HasBothLeadColumns(env.monthly_acquisition)
    /\ pc' = After("chart_monthly_acquisition")
    /\ UNCHANGED <<data, env, page>>

\* revenue_by_lead_type['percentage'] = ...
LeadTypePercentage ==
    /\ pc = "lead_type_percentage"
    /\ env' = Bind(env, "revenue_by_lead_type", WithPercentage(env.revenue_by_lead_type, env.total_revenue))
    /\ pc' = After("lead_type_percentage")
    /\ UNCHANGED <<data, page>>

ChartLeadType ==
    /\ pc = "chart_lead_type"
    /\ page' = Append(page, Chart("Revenue by Lead Type", env.revenue_by_lead_type))
    /\ pc' = After("chart_lead_type")
    /\ UNCHANGED <<data, env>>

\* group, percentage, sort by revenue descending
RevenueByCountry ==
    /\ pc = "revenue_by_country"
    /\ env' = Bind(env, "revenue_by_country", revenue_by_country(env.processed_df, env.total_revenue))
    /\ pc' = After("revenue_by_country")
    /\ UNCHANGED <<data, page>>

ChartCountry ==
    /\ pc = "chart_country"
    /\ page' = Append(page, Chart("Revenue by Country", env.revenue_by_country))
    /\ pc' = After("chart_country")
    /\ UNCHANGED <<data, env>>

\* process_data always adds edition_simple, so the `if` is taken
RevenueByEdition ==
    /\ pc = "revenue_by_edition"
    /\ env' = Bind(env, "revenue_by_edition", revenue_by_edition(env.processed_df, env.total_revenue))
    /\ pc' = After("revenue_by_edition")
    /\ UNCHANGED <<data, page>>

ChartEdition ==
    /\ pc = "chart_edition"
    /\ page' = Append(page, Chart("Revenue by Edition", env.revenue_by_edition))
    /\ pc' = After("chart_edition")
    /\ UNCHANGED <<data, env>>

\* process_data always adds deployment, so the `if` is taken
RevenueByDeployment ==
    /\ pc = "revenue_by_deployment"
    /\ env' = Bind(env, "revenue_by_deployment", revenue_by_deployment(env.processed_df, env.total_revenue))
    /\ pc' = After("revenue_by_deployment")
    /\ UNCHANGED <<data, page>>

ChartDeployment ==
    /\ pc = "chart_deployment"
    /\ page' = Append(page, Chart("Revenue by Deployment", env.revenue_by_deployment))
    /\ pc' = After("chart_deployment")
    /\ UNCHANGED <<data, env>>

\* group, sort by revenue descending
RevenueByProduct ==
    /\ pc = "revenue_by_product"
    /\ env' = Bind(env, "revenue_by_product", revenue_by_product(env.processed_df))
    /\ pc' = After("revenue_by_product")
    /\ UNCHANGED <<data, page>>

ChartProduct ==
    /\ pc = "chart_product"
    /\ page' = Append(page, Chart("Revenue by Product", env.revenue_by_product))
    /\ pc' = After("chart_product")
    /\ UNCHANGED <<data, env>>

\* group, percentage, sort by revenue descending
RevenueByIndustry ==
    /\ pc = "revenue_by_industry"
    /\ env' = Bind(env, "revenue_by_industry", revenue_by_industry(env.processed_df, env.total_revenue))
    /\ pc' = After("revenue_by_industry")
    /\ UNCHANGED <<data, page>>

\* top_industries, other_industries, pd.concat
TopIndustriesStep ==
    /\ pc = "top_industries"
    /\ env' = Bind(env, "top_industries", top_industries(env.revenue_by_industry))
    /\ pc' = After("top_industries")
    /\ UNCHANGED <<data, page>>

ChartIndustry ==
    /\ pc = "chart_industry"
    /\ page' = Append(page, Chart("Revenue by Industry", env.top_industries))
    /\ pc' = After("chart_industry")
    /\ UNCHANGED <<data, env>>

\* the loop over size_ranges, and the sort when the frame is not empty
EndpointSize ==
    /\ pc = "endpoint_size"
    /\ env' = Bind(env, "endpoint_size_df", endpoint_size_df(env.processed_df))
    /\ pc' = After("endpoint_size")
    /\ UNCHANGED <<data, page>>

\* drawn only when endpoint_size_df is not empty
ChartEndpointSize ==
    /\ pc = "chart_endpoint_size"
    /\ page' = IF env.endpoint_size_df # <<>>
               THEN Append(page, Chart("Endpoint Size Distribution",
                                       env.endpoint_size_df))
               ELSE page
    /\ pc' = After("chart_endpoint_size")
    /\ UNCHANGED <<data, env>>

\* value_counts, drop the empty domain, head(10)
DomainCount ==
    /\ pc = "domain_count"
    /\ env' = Bind(env, "domain_count", domain_count(env.processed_df))
    /\ pc' = After("domain_count")
    /\ UNCHANGED <<data, page>>

\* drawn only when domain_count is not empty
ChartDomainCount ==
    /\ pc = "chart_domain_count"
    /\ page' = IF env.domain_count # <<>>
               THEN Append(page, Chart("Top 10 Domains by Count",
                                       env.domain_count))
               ELSE page
    /\ pc' = After("chart_domain_count")
    /\ UNCHANGED <<data, env>>

\* the closing markdown; the script ends
Footer ==
    /\ pc = "footer"
    /\ pc' = After("footer")
    /\ UNCHANGED <<data, env, page>>

Next ==
    \/ Load
    \/ ProcessData
    \/ SummaryStatistics
    \/ AverageRevenue
    \/ KpiTotalRevenue
    \/ KpiTotalEndpoints
    \/ KpiLeadTypes
    \/ KpiAvgPaid
    \/ KpiAvgZeroCost
    \/ MonthlyRevenue
    \/ ChartMonthlyRevenue
    \/ MonthlyAcquisition
    \/ ChartMonthlyAcquisition
    \/ SkipMonthlyAcquisition
    \/ LeadTypePercentage
    \/ ChartLeadType
    \/ RevenueByCountry
    \/ ChartCountry
    \/ RevenueByEdition
    \/ ChartEdition
    \/ RevenueByDeployment
    \/ ChartDeployment
    \/ RevenueByProduct
    \/ ChartProduct
    \/ RevenueByIndustry
    \/ TopIndustriesStep
    \/ ChartIndustry
    \/ EndpointSize
    \/ ChartEndpointSize
    \/ DomainCount
    \/ ChartDomainCount
    \/ Footer

Spec == Init /\ [][Next]_vars

\* The same script run on the industry datasets
InitIndustry ==
    /\ data \in IndustryDatasets
    /\ pc = "load"
    /\ env = [n \in {} |-> 0]
    /\ page = <<>>

SpecIndustry == InitIndustry /\ [][Next]_vars

----------------------------------------------------------------------------
(* Vocabulary of the properties.                                           *)
Frame == env.processed_df

Indices(frame) == 1..Len(frame)

\* the entries of the page with a given title
Emitted(title) == {i \in 1..Len(page) : page[i].title = title}

KpiTitles ==
    {"Total Revenue", "Total Endpoints", "Lead Types",
     "Avg. Revenue Per Paid Lead", "Avg. Revenue Per Zero Cost Lead"}

\* tok is the text of s before its first space (all of s if it has none)
IsFirstToken(tok, s) ==
    /\ Len(tok) <= Len(s)
    /\ \A i \in 1..Len(tok) : tok[i] = s[i] /\ tok[i] # " "
    /\ Len(tok) < Len(s) => s[Len(tok) + 1] = " "

Digits == {"0", "1", "2", "3", "4", "5", "6", "7", "8", "9"}

\* "<Mon> <YYYY>" with <Mon> the i-th of Jan..Dec
IsMonthYear(s, i) ==
    /\ Len(s) = 8
    /\ SubSeq(s, 1, 3) = MonthNames[i]
    /\ s[4] = " "
    /\ \A k \in 5..8 : s[k] \in Digits

\* the product name has the letters c-l-o-u-d in a row, in either case
HasCloudAnyCase(product) ==
    \E i \in 0..(Len(product) - 5) :
        /\ product[i + 1] \in {"c", "C"}
        /\ product[i + 2] \in {"l", "L"}
        /\ product[i + 3] \in {"o", "O"}
        /\ product[i + 4] \in {"u", "U"}
        /\ product[i + 5] \in {"d", "D"}

\* the revenue of the records of a frame that satisfy a column test
RevenueWhere(frame, I) == SumOver([i \in I |-> frame[i].revenue], I)

\* the place of a month in the calendar, 0 for a label that is no month
CalendarPlace(m) ==
    IF \E i \in 1..12 : MonthNames[i] = m
    THEN CHOOSE i \in 1..12 : MonthNames[i] = m
    ELSE 0

\* rows of a chart are in calendar order; labels that are no month come last
InCalendarOrder(rows) ==
    \A a, b \in Indices(rows) :
        a < b =>
            \/ CalendarPlace(rows[b].month) = 0
            \/ /\ CalendarPlace(rows[a].month) # 0
               /\ CalendarPlace(rows[a].month) < CalendarPlace(rows[b].month)

SortedByRevenueDesc(rows) ==
    \A a, b \in Indices(rows) : a < b => rows[a].revenue >= rows[b].revenue

\* the module-level name a chart is drawn from
ChartSource ==
    [t \in {"Monthly Revenue", "Revenue by Lead Type", "Revenue by Country",
            "Revenue by Edition", "Revenue by Deployment", "Revenue by Product",
            "Revenue by Industry", "Endpoint Size Distribution",
            "Top 10 Domains by Count"} |->
        CASE t = "Monthly Revenue" -> "monthly_revenue"
          [] t = "Revenue by Lead Type" -> "revenue_by_lead_type"
          [] t = "Revenue by Country" -> "revenue_by_country"
          [] t = "Revenue by Edition" -> "revenue_by_edition"
          [] t = "Revenue by Deployment" -> "revenue_by_deployment"
          [] t = "Revenue by Product" -> "revenue_by_product"
          [] t = "Revenue by Industry" -> "top_industries"
          [] t = "Endpoint Size Distribution" -> "endpoint_size_df"
          [] t = "Top 10 Domains by Count" -> "domain_count"]

----------------------------------------------------------------------------
(* C1. After process_data every record's lead type is "Purchased" or       *)
(* "Zero Cost": a raw type that differs only in letter case has been       *)
(* normalized.  The derive step leaves the type column as loaded, so the   *)
(* record of line 582 ("Zero cost") refutes it.                            *)
C1_LeadTypeNormalized ==
    Bound("processed_df") =>
        \A i \in Indices(Frame) : Frame[i].type \in {s_Purchased, s_Zero_Cost}

(* C2. paid_leads + zero_cost_leads is the number of distinct              *)
(* (Domain, type) pairs of the processed records.  A "Zero cost" record is *)
(* a pair counted by neither KPI.                                          *)
C2_EveryLeadCounted ==
    Bound("paid_leads") =>
        env.paid_leads + env.zero_cost_leads =
            Cardinality({<<Frame[i].Domain, Frame[i].type>> : i \in Indices(Frame)})

(* C3. The month of every processed record is the first space-separated    *)
(* token of its update_as; when update_as is "<Mon> <YYYY>" the month is   *)
(* that <Mon>, it is a key of month_order and its number is its calendar   *)
(* place 1..12, also in the month_num column of monthly_revenue.           *)
C3_MonthAbbreviation ==
    Bound("processed_df") =>
        \A i \in Indices(Frame) :
            /\ IsFirstToken(Frame[i].month, Frame[i].update_as)
            /\ \A k \in 1..12 :
                  IsMonthYear(Frame[i].update_as, k) =>
                      /\ Frame[i].month = MonthNames[k]
                      /\ Frame[i].month \in DOMAIN month_order
                      /\ month_order[Frame[i].month] = k
                      /\ Bound("monthly_revenue") =>
                            \E r \in Indices(env.monthly_revenue) :
                                /\ env.monthly_revenue[r].month = MonthNames[k]
                                /\ env.monthly_revenue[r].month_num = <<k>>

C3_Witness ==
    /\ Bound("monthly_revenue")
    /\ \E i \in Indices(Frame) :
          IsMonthYear(Frame[i].update_as, 5) /\ Frame[i].month = s_May
    /\ \E i \in Indices(Frame) :
          \A k \in 1..12 : ~IsMonthYear(Frame[i].update_as, k)

(* C4. Every processed record has deployment 'Cloud' or 'On-Premises', and *)
(* it is 'Cloud' exactly when the product name contains "cloud" in any     *)
(* letter case.                                                            *)
C4_DeploymentFlag ==
    Bound("processed_df") =>
        \A i \in Indices(Frame) :
            /\ Frame[i].deployment \in {s_Cloud, s_On_Premises}
            /\ Frame[i].deployment = s_Cloud <=> HasCloudAnyCase(Frame[i].product)

C4_Witness ==
    /\ Bound("processed_df")
    /\ \E i \in Indices(Frame) :
          Frame[i].product = s_PMP_Cloud /\ Frame[i].deployment = s_Cloud
    /\ \E i \in Indices(Frame) :
          Frame[i].product = s_MDM_OnDemand /\ Frame[i].deployment = s_On_Premises

(* C5. edition_simple is the first space-separated token of edition, and   *)
(* the Revenue by Edition aggregate has one row per token whose revenue is *)
(* the revenue of all records with that token: "Professional (Monthly      *)
(* payment)" and "Professional" are one group.                             *)
C5_SimplifiedEdition ==
    Bound("revenue_by_edition") =>
        /\ \A i \in Indices(Frame) :
              /\ IsFirstToken(Frame[i].edition_simple, Frame[i].edition)
              /\ \E g \in Indices(env.revenue_by_edition) :
                    IsFirstToken(env.revenue_by_edition[g].edition_simple,
                                 Frame[i].edition)
        /\ \A g \in Indices(env.revenue_by_edition) :
              /\ env.revenue_by_edition[g].revenue =
                    RevenueWhere(Frame,
                        {i \in Indices(Frame) :
                            IsFirstToken(env.revenue_by_edition[g].edition_simple,
                                         Frame[i].edition)})
              /\ \A h \in Indices(env.revenue_by_edition) :
                    env.revenue_by_edition[h].edition_simple =
                        env.revenue_by_edition[g].edition_simple => h = g

C5_Witness ==
    /\ Bound("revenue_by_edition")
    /\ \E i, j \in Indices(Frame) :
          /\ Frame[i].edition = s_Professional_Monthly
          /\ Frame[j].edition = s_Professional
    /\ \E g \in Indices(env.revenue_by_edition) :
          /\ env.revenue_by_edition[g].edition_simple = s_Professional
          /\ env.revenue_by_edition[g].revenue =
                RevenueWhere(Frame, {i \in Indices(Frame) :
                    Frame[i].edition \in {s_Professional, s_Professional_Monthly}})

(* C6. Every chart on the page comes after all five KPI cards and no KPI   *)
(* card comes after a chart; a run that reaches its end has emitted each   *)
(* of the five cards once.                                                 *)
C6_KpiCardsFirst ==
    /\ \A i \in 1..Len(page) :
          page[i].kind = "chart" =>
              /\ \A t \in KpiTitles :
                    \E j \in 1..(i - 1) :
                        page[j].kind = "kpi" /\ page[j].title = t
              /\ \A j \in (i + 1)..Len(page) : page[j].kind # "kpi"
    /\ pc = "done" =>
          \A t \in KpiTitles : Cardinality(Emitted(t)) = 1

C6_Witness ==
    /\ pc = "done"
    /\ \E i \in 1..Len(page) : page[i].kind = "chart"
    /\ \A t \in KpiTitles : Emitted(t) # {}

(* C7. Load comes before process_data, process_data before every          *)
(* aggregate and every emission; a chart is handed the aggregate as it     *)
(* finally stands (nothing is added to it after the call), whose keys are  *)
(* columns of the processed frame, and the aggregates the script sorts are *)
(* already sorted when they are drawn.                                     *)
C7_PipelineOrder ==
    /\ Bound("processed_df") => Bound("df") /\ env.df = data
    /\ (DOMAIN env \ {"df"}) # {} => Bound("processed_df")
    /\ page # <<>> => Bound("processed_df")
    /\ \A i \in 1..Len(page) :
          page[i].title \in DOMAIN ChartSource =>
              /\ Bound(ChartSource[page[i].title])
              /\ page[i].data = env[ChartSource[page[i].title]]
    /\ \A i \in Emitted("Monthly Revenue") :
          /\ InCalendarOrder(page[i].data)
          /\ \A r \in Indices(page[i].data) :
                \E k \in Indices(Frame) : Frame[k].month = page[i].data[r].month
    /\ \A i \in Emitted("Monthly Customer Acquisition") :
          /\ Bound("monthly_acquisition")
          /\ InCalendarOrder(page[i].data)
          /\ Len(page[i].data) = Len(env.monthly_acquisition)
          /\ \A r \in Indices(page[i].data) :
                /\ page[i].data[r].month = env.monthly_acquisition[r].month
                /\ \E k \in Indices(Frame) : Frame[k].month = page[i].data[r].month
    /\ \A i \in Emitted("Revenue by Country") :
          /\ SortedByRevenueDesc(page[i].data)
          /\ \A r \in Indices(page[i].data) :
                \E k \in Indices(Frame) : Frame[k].country = page[i].data[r].country
    /\ \A i \in Emitted("Revenue by Product") :
          /\ SortedByRevenueDesc(page[i].data)
          /\ \A r \in Indices(page[i].data) :
                \E k \in Indices(Frame) : Frame[k].product = page[i].data[r].product
    /\ \A i \in Emitted("Revenue by Industry") : SortedByRevenueDesc(page[i].data)
    /\ \A i \in Emitted("Revenue by Edition") :
          \A r \in Indices(page[i].data) :
              \E k \in Indices(Frame) :
                  Frame[k].edition_simple = page[i].data[r].edition_simple
    /\ \A i \in Emitted("Revenue by Deployment") :
          \A r \in Indices(page[i].data) :
              \E k \in Indices(Frame) :
                  Frame[k].deployment = page[i].data[r].deployment

C7_Witness ==
    /\ pc = "done"
    /\ \E i \in Emitted("Monthly Customer Acquisition") :
          /\ Len(page[i].data) >= 2
          /\ page[i].data[1].month = s_Jan
          /\ page[i].data[2].month = s_Feb
    /\ \E i \in Emitted("Revenue by Country") : Len(page[i].data) >= 2

(* C8. paid_leads is the number of distinct domains that have a            *)
(* 'Purchased' record and zero_cost_leads the number of distinct domains   *)
(* that have a 'Zero Cost' record: repeated records of one domain under    *)
(* one type count once, a domain under both types counts once in each.     *)
C8_LeadsPerUniquePair ==
    Bound("paid_leads") =>
        /\ env.paid_leads =
              Cardinality({Frame[i].Domain :
                  i \in {k \in Indices(Frame) : Frame[k].type = s_Purchased}})
        /\ env.zero_cost_leads =
              Cardinality({Frame[i].Domain :
                  i \in {k \in Indices(Frame) : Frame[k].type = s_Zero_Cost}})

C8_Witness ==
    /\ Bound("paid_leads")
    /\ \E i, j, k \in Indices(Frame) :
          /\ i # j
          /\ Frame[i].Domain = Frame[j].Domain
          /\ Frame[i].type = s_Zero_Cost /\ Frame[j].type = s_Zero_Cost
          /\ Frame[k].Domain = Frame[i].Domain
          /\ Frame[k].type = s_Purchased
    /\ env.paid_leads = 1
    /\ env.zero_cost_leads = 1

(* C9. The rows handed to the Monthly Revenue bar chart are in calendar    *)
(* order, there is exactly one row per distinct month of the processed     *)
(* records, and each row's revenue is the summed revenue of the records of *)
(* that month.                                                             *)
C9_MonthlyRevenueOrder ==
    \A c \in Emitted("Monthly Revenue") :
        LET rows   == page[c].data
            months == {Frame[i].month : i \in Indices(Frame)}
        IN  /\ InCalendarOrder(rows)
            /\ {rows[r].month : r \in Indices(rows)} = months
            /\ Len(rows) = Cardinality(months)
            /\ \A r \in Indices(rows) :
                  rows[r].revenue =
                      RevenueWhere(Frame, {i \in Indices(Frame) :
                                              Frame[i].month = rows[r].month})

C9_Witness ==
    \E c \in Emitted("Monthly Revenue") :
        /\ Len(page[c].data) = 2
        /\ page[c].data[1].month = s_Jan
        /\ page[c].data[2].month = s_Feb
        /\ \E i, j \in Indices(Frame) :
              i # j /\ Frame[i].month = s_Feb /\ Frame[j].month = s_Feb

(* C10. Whenever the Monthly Customer Acquisition chart is drawn, the Paid *)
(* and Zero-Cost counts of each month add up to the number of records of   *)
(* that month.  A "Zero cost" record is in neither column.                 *)
C10_AcquisitionComplete ==
    \A c \in Emitted("Monthly Customer Acquisition") :
        \A r \in Indices(page[c].data) :
            page[c].data[r].Paid + page[c].data[r].ZeroCost =
                Cardinality({i \in Indices(Frame) :
                                Frame[i].month = page[c].data[r].month})

(* C11. The Monthly Customer Acquisition chart is drawn exactly when the   *)
(* records hold at least one 'Purchased' and at least one 'Zero Cost'      *)
(* lead; otherwise it is skipped, the run does not stop on an error, and   *)
(* every later chart is still drawn.                                       *)
C11_AcquisitionChartGuard ==
    LET drawn == Emitted("Monthly Customer Acquisition") # {}
        both  == /\ \E i \in Indices(Frame) : Frame[i].type = s_Purchased
                 /\ \E i \in Indices(Frame) : Frame[i].type = s_Zero_Cost
    IN  /\ pc # "crashed"
        /\ drawn => both
        /\ Emitted("Revenue by Lead Type") # {} => (drawn <=> both)
        /\ pc = "done" => \A t \in DOMAIN ChartSource : Cardinality(Emitted(t)) = 1

C11_Witness ==
    /\ pc = "done"
    /\ Emitted("Monthly Customer Acquisition") = {}
    /\ \E i \in Indices(Frame) : Frame[i].type = s_Purchased
    /\ \E i \in Indices(Frame) : Frame[i].type = s_Zero_cost
    /\ Emitted("Top 10 Domains by Count") # {}

(* C12. The two averages are computed without an error; the average of a  *)
(* lead type with no lead is 0, and otherwise it is the summed revenue of  *)
(* all records of that type over the number of distinct domains of that    *)
(* type (a positive number).                                               *)
C12_AverageRevenue ==
    /\ pc # "crashed"
    /\ Bound("avg_revenue_per_paid") =>
          \A case \in {<<s_Purchased, env.avg_revenue_per_paid>>,
                       <<s_Zero_Cost, env.avg_revenue_per_zero_cost>>} :
              LET of_type == {i \in Indices(Frame) : Frame[i].type = case[1]}
                  leads   == Cardinality({Frame[i].Domain : i \in of_type})
                  avg     == case[2]
              IN  /\ avg.den > 0
                  /\ of_type = {} => avg.num = 0
                  /\ of_type # {} =>
                        /\ avg.num = RevenueWhere(Frame, of_type)
                        /\ avg.den = leads

C12_Witness ==
    /\ Bound("avg_revenue_per_paid")
    /\ env.avg_revenue_per_paid = [num |-> 0, den |-> 1]
    /\ env.avg_revenue_per_zero_cost.den = 1
    /\ \E i, j \in Indices(Frame) :
          /\ i # j
          /\ Frame[i].type = s_Zero_Cost /\ Frame[j].type = s_Zero_Cost
          /\ Frame[i].Domain = Frame[j].Domain
          /\ env.avg_revenue_per_zero_cost.num >=
                Frame[i].revenue + Frame[j].revenue

(* C13. For each grouping key (type, country, edition_simple, deployment,  *)
(* product, industry, month) the revenues of the groups add up to          *)
(* total_revenue, the figure of the Total Revenue card.                    *)
C13_RevenueConservation ==
    /\ \A c \in Emitted("Total Revenue") : page[c].data = env.total_revenue
    /\ \A name \in {"revenue_by_lead_type", "revenue_by_country",
                    "revenue_by_edition", "revenue_by_deployment",
                    "revenue_by_product", "revenue_by_industry",
                    "monthly_revenue"} :
          Bound(name) =>
              SumOver([g \in Indices(env[name]) |-> env[name][g].revenue],
                      Indices(env[name])) = env.total_revenue

C13_Witness ==
    /\ pc = "done"
    /\ Len(env.processed_df) = 3
    /\ Len(env.revenue_by_country) = 2
    /\ Len(env.revenue_by_industry) = 2
    /\ Len(env.monthly_revenue) = 2
    /\ Len(env.revenue_by_edition) = 2

(* C14. The Revenue by Industry pie is handed the industries of highest   *)
(* revenue, at most 6 of them, in descending order of revenue, followed by *)
(* one 'Other' slice exactly when there are more than 6 distinct           *)
(* industries; 'Other' carries the summed revenue of the industries        *)
(* outside the top 6.  The pie has at most 7 slices and their revenues add *)
(* up to total_revenue.                                                    *)
C14_IndustryTail ==
    \A c \in Emitted("Revenue by Industry") :
        LET slices     == page[c].data
            industries == {Frame[i].industry : i \in Indices(Frame)}
            n          == Cardinality(industries)
            revenue_of == [x \in industries |->
                              RevenueWhere(Frame, {i \in Indices(Frame) :
                                                      Frame[i].industry = x})]
            kept       == 1..(IF n > 6 THEN 6 ELSE n)
            top        == {slices[r].industry : r \in kept}
        IN  /\ Len(slices) <= 7
            /\ Len(slices) = IF n > 6 THEN 7 ELSE n
            /\ top \subseteq industries
            /\ Cardinality(top) = Cardinality(kept)
            /\ \A r \in kept :
                  /\ slices[r].revenue = revenue_of[slices[r].industry]
                  /\ \A q \in kept : r < q => slices[r].revenue >= slices[q].revenue
                  /\ \A x \in industries \ top : slices[r].revenue >= revenue_of[x]
            /\ n > 6 =>
                  /\ slices[7].industry = s_Other
                  /\ slices[7].revenue = SumOver(revenue_of, industries \ top)
            /\ n <= 6 => \A r \in Indices(slices) : slices[r].industry # s_Other
            /\ SumOver([r \in Indices(slices) |-> slices[r].revenue],
                       Indices(slices)) = env.total_revenue

C14_Witness ==
    \E c \in Emitted("Revenue by Industry") :
        /\ Len(page[c].data) = 7
        /\ page[c].data[7].industry = s_Other
        /\ Cardinality({Frame[i].industry : i \in Indices(Frame)}) = 8
        /\ page[c].data[7].revenue = 25594 + 10112
        /\ page[c].data[1].industry = s_Education

====
